---- MODULE Spec2Model ----
(***************************************************************************)
(* Model of the flashcard converter of src/main.go: the line scanner       *)
(* NewEntriesFromFile and the tag-balance validator IsValidHTML.           *)
(*                                                                         *)
(* A Go string is a sequence of one-character strings (ASCII, so a byte is *)
(* a character).  Offsets are 0-based as in the source; Slice(s, a, b) is  *)
(* the Go expression s[a:b].                                               *)
(***************************************************************************)
EXTENDS Integers, Sequences, FiniteSets, TLC

VARIABLES
    \* NewEntriesFromFile
    lines,      \* the lines the scanner has delivered so far (the stream f)
    line,       \* the loop counter `line`
    data,       \* scanner.Text() of the last delivered line
    current,    \* the accumulator `current`
    entries,    \* the storage `entries`
    pc,         \* "scan" | "done" (returned) | "panic" (run-time panic)
    err,        \* the returned error
    \* IsValidHTML
    s,          \* the argument
    form,       \* how the argument was built
    offset,     \* the loop variable `offset`
    tags,       \* the stack `tags`
    hpc,        \* "idle" | "loop" | "return" | "panic"
    herr,       \* the returned error
    returned,   \* the calls of IsValidHTML that have ended, in order
    \* Entries.Write
    output      \* what Entries.Write wrote and returned

scanVars == <<lines, line, data, current, entries, pc, err>>
htmlVars == <<s, form, offset, tags, hpc, herr, returned>>
vars == <<lines, line, data, current, entries, pc, err, s, form, offset, tags, hpc, herr,
          returned, output>>

-----------------------------------------------------------------------------
(* Bounds of the model *)

MaxLines == 16
MaxLen == 4
MaxToks == 4
MaxX == 1
MaxY == 3
MaxCalls == 3

-----------------------------------------------------------------------------
(* Strings *)

Slice(str, a, b) == SubSeq(str, a + 1, b)

\* strings.IndexByte: 0-based index of the first c in str, or -1
IndexByte(str, c) ==
    IF \E i \in 1..Len(str) : str[i] = c
    THEN (CHOOSE i \in 1..Len(str) : str[i] = c /\ \A j \in 1..(i - 1) : str[j] # c) - 1
    ELSE -1

\* the white space strings.TrimSpace removes (space, tab, \n, \v, \f, \r);
\* a line holds no \n, and the model's alphabet has space and tab
WhiteSpace == {" ", "\t", "\r"}

RECURSIVE TrimLeft(_)
TrimLeft(str) ==
    IF Len(str) > 0 /\ str[1] \in WhiteSpace THEN TrimLeft(Tail(str)) ELSE str

RECURSIVE TrimRight(_)
TrimRight(str) ==
    IF Len(str) > 0 /\ str[Len(str)] \in WhiteSpace
    THEN TrimRight(SubSeq(str, 1, Len(str) - 1))
    ELSE str

TrimSpace(str) == TrimRight(TrimLeft(str))

\* an error value: the format of the message and the values formatted into it
Error(msg, args) == [msg |-> msg, args |-> args]
Nil == Error("nil", <<>>)

-----------------------------------------------------------------------------
(* IsValidHTML *)

HTMLState(p, o, t, e) == [pc |-> p, offset |-> o, tags |-> t, err |-> e]

\* the mutants of the validator
HTMLEnd_NoCheck(o, t) == HTMLState("return", o, t, Nil)

HTMLEnd_InnermostFirst(o, t) ==
    IF Len(t) # 0
    THEN HTMLState("return", o, t,
                   Error("not all tags closed: %+v", [k \in 1..Len(t) |-> t[Len(t) + 1 - k]]))
    ELSE HTMLState("return", o, t, Nil)

\* after the loop: `if len(tags) != 0`
HTMLEnd(o, t) ==
    IF Len(t) # 0
    THEN HTMLState("return", o, t, Error("not all tags closed: %+v", t))
    ELSE HTMLState("return", o, t, Nil)

HTMLClose_Pop(o, t, tag, end) ==
    IF Len(t) = 0
    THEN HTMLState("panic", o, t, Error("index out of range [-1]", <<>>))
    ELSE HTMLState("loop", end + 1, SubSeq(t, 1, Len(t) - 1), Nil)

\* `if tag[0] == '/'`: tags[len(tags)-1] panics on an empty stack
HTMLClose(o, t, tag, end) ==
    IF Len(t) = 0
    THEN HTMLState("panic", o, t, Error("index out of range [-1]", <<>>))
    ELSE LET last == t[Len(t)]
             expected == Tail(tag)
         IN  IF last # expected
             THEN HTMLState("return", o, t,
                            Error("mismatched close tag found: %s != %s", <<last, expected>>))
             ELSE HTMLState("loop", end + 1, SubSeq(t, 1, Len(t) - 1), Nil)

\* `else { tags = append(tags, tag) }`
HTMLOpen(o, t, tag, end) == HTMLState("loop", end + 1, Append(t, tag), Nil)

TagName_NoCut(str, start, end) == TrimSpace(Slice(str, start + 1, end))

\* the tag name between the brackets: trimmed, then cut at the first space
TagName(str, start, end) ==
    LET tag == TrimSpace(Slice(str, start + 1, end))
        idx == IndexByte(tag, " ")
    IN  IF idx >= 0 THEN Slice(tag, 0, idx) ELSE tag

\* one evaluation of the loop condition and, when it holds, of the loop body
HTMLStep(str, o, t) ==
    IF ~(o < Len(str)) THEN HTMLEnd(o, t)
    ELSE
    LET start0 == IndexByte(Slice(str, o, Len(str)), "<")
        start == start0 + o
        o1 == IF o < start THEN start ELSE o
        end0 == IndexByte(Slice(str, start, Len(str)), ">")
        end == end0 + o1
        tag == TagName(str, start, end)
    IN  IF start0 = -1 THEN HTMLEnd(o, t)
        ELSE IF o < start /\ IndexByte(Slice(str, o, start), ">") # -1
        THEN HTMLState("return", o, t,
                       Error("found closing bracket before an opening bracket", <<>>))
        ELSE IF end0 = -1
        THEN HTMLState("return", o1, t,
                       Error("found opening bracket but no closing bracket", <<>>))
        ELSE IF tag = <<>>
        THEN HTMLState("return", o1, t, Error("empty tag found", <<>>))
        ELSE IF tag[1] = "/" THEN HTMLClose(o1, t, tag, end)
        ELSE HTMLOpen(o1, t, tag, end)

RECURSIVE HTMLRun(_, _)
HTMLRun(str, st) ==
    IF st.pc = "loop" THEN HTMLRun(str, HTMLStep(str, st.offset, st.tags)) ELSE st

\* the whole call: its final state, .pc = "return" with .err, or .pc = "panic"
IsValidHTML(str) == HTMLRun(str, HTMLState("loop", 0, <<>>, Nil))

-----------------------------------------------------------------------------
(* Program constants *)

EntryID == 0
EntryUsage == 1
EntryTranslation == 2
EntryWord == 3
EntryPronunciation == 4
EntryDefinition == 5
EntryTags == 6
EntryEnd == 7
EntryDirtyMarker == "*"
EntryDelimiter == <<"-", "-", "-">>
Capacity == 2200
digitsOffset == 3
dirtyOffset_AtDigits == digitsOffset
dirtyOffset == digitsOffset + 1
commentOffset_AfterMarker == dirtyOffset + 1
commentOffset == dirtyOffset + 2

-----------------------------------------------------------------------------
(* Library functions the scanner calls *)

Digit == {"0", "1", "2", "3", "4", "5", "6", "7", "8", "9"}

DigitVal(c) ==
    CASE c = "0" -> 0 [] c = "1" -> 1 [] c = "2" -> 2 [] c = "3" -> 3 [] c = "4" -> 4
      [] c = "5" -> 5 [] c = "6" -> 6 [] c = "7" -> 7 [] c = "8" -> 8 [] c = "9" -> 9

RECURSIVE Decimal(_)
Decimal(str) ==
    IF str = <<>> THEN 0
    ELSE 10 * Decimal(SubSeq(str, 1, Len(str) - 1)) + DigitVal(str[Len(str)])

\* strconv.ParseInt(str, 10, 0): an optional sign, then one or more decimal digits
ParseInt(str) ==
    LET signed == Len(str) > 0 /\ str[1] \in {"+", "-"}
        digits == IF signed THEN Tail(str) ELSE str
    IN  IF digits # <<>> /\ \A i \in 1..Len(digits) : digits[i] \in Digit
        THEN [ok |-> TRUE,
              val |-> IF signed /\ str[1] = "-" THEN 0 - Decimal(digits) ELSE Decimal(digits)]
        ELSE [ok |-> FALSE, val |-> 0]

\* ClozeDeletionRegexp = "{{c[[:digit:]]::(.+)}}" matches at 1-based i up to the "}}" at j
ClozeAt(str, i, j) ==
    /\ i + 7 <= j /\ j + 1 <= Len(str)
    /\ str[i] = "{" /\ str[i + 1] = "{" /\ str[i + 2] = "c" /\ str[i + 3] \in Digit
    /\ str[i + 4] = ":" /\ str[i + 5] = ":"
    /\ str[j] = "}" /\ str[j + 1] = "}"

\* ClozeDeletionRegexp.FindStringSubmatch: <<>> (nil), or the leftmost match with the
\* greedy group, <<the match, the group>>
FindStringSubmatch(str) ==
    LET P == 1..Len(str)
        starts == {i \in P : \E j \in P : ClozeAt(str, i, j)}
    IN  IF starts = {} THEN <<>>
        ELSE LET i == CHOOSE a \in starts : \A b \in starts : a <= b
                 j == CHOOSE a \in P : ClozeAt(str, i, a)
                                        /\ \A b \in P : ClozeAt(str, i, b) => b <= a
             IN  <<SubSeq(str, i, j + 1), SubSeq(str, i + 6, j - 1)>>

\* strings.Split(str, ","): the pieces between the commas, empty pieces kept
RECURSIVE Split(_)
Split(str) ==
    LET k == IndexByte(str, ",")
    IN  IF k = -1 THEN <<str>>
        ELSE <<Slice(str, 0, k)>> \o Split(Slice(str, k + 1, Len(str)))

-----------------------------------------------------------------------------
(* NewEntriesFromFile *)

\* Entry{}: the zero value
ZeroEntry ==
    [id |-> 0, dirty |-> FALSE, comments |-> <<>>, input |-> <<>>, usage |-> <<>>,
     translation |-> <<>>, word |-> <<>>, pronunciation |-> <<>>, definition |-> <<>>,
     tags |-> <<>>]

\* a comment taken from the ID line (the messages are Error values)
Comment(text) == Error("%s", <<text>>)

\* Entries is [2200]Entry; the model keeps the slots written so far, every other
\* slot holds the zero value
EntryAt(es, i) == IF i \in DOMAIN es THEN es[i] ELSE ZeroEntry

\* the state of one run: the loop counter, the accumulator, the storage, and how
\* the run stands
ScanState(l, c, es, p, e) == [line |-> l, current |-> c, entries |-> es, pc |-> p, err |-> e]

ParseError_ZeroBased(st, d, reason) ==
    ScanState(st.line, st.current, st.entries, "done",
              [kind |-> "parse", line |-> st.line - 1, data |-> d, reason |-> reason])

\* return entries, EntriesParseError{line, data, reason}
ParseError(st, d, reason) ==
    ScanState(st.line, st.current, st.entries, "done",
              [kind |-> "parse", line |-> st.line, data |-> d, reason |-> reason])
NoError == [kind |-> "nil", line |-> 0, data |-> <<>>, reason |-> ""]
ReadError == [kind |-> "io", line |-> 0, data |-> <<>>, reason |-> "failed to read file: %v"]

Continue(st, c) == ScanState(st.line + 1, c, st.entries, "scan", NoError)

CaseEntryID(st, d) ==
    IF Len(d) < digitsOffset + 1
    THEN ParseError(st, d, "line %d: entry ID too short: %q: found %d digits, expected %d digits")
    ELSE LET id == ParseInt(Slice(d, 0, digitsOffset + 1))
             seeded == IF Len(d) >= commentOffset + 1
                       THEN <<Comment(Slice(d, commentOffset, Len(d)))>>
                       ELSE <<>>
         IN  IF ~id.ok
             THEN ParseError(st, d, "line %d: failed to parse entry ID: %q: %v")
             ELSE Continue(st, [st.current EXCEPT
                      !.id = id.val,
                      !.dirty = Len(d) >= dirtyOffset + 1 /\ d[dirtyOffset + 1] = EntryDirtyMarker,
                      !.comments = seeded])

AfterValidHTML_Unmarked(c, h) == c

\* `if err := IsValidHTML(data); err != nil`: the entry after the check, given the
\* validator's final state h (the caller handles a panic)
AfterValidHTML(c, h) ==
    IF h.err # Nil
    THEN [c EXCEPT !.dirty = TRUE, !.comments = Append(c.comments, h.err)]
    ELSE c

Panic(st, c, what) ==
    ScanState(st.line, c, st.entries, "panic", [NoError EXCEPT !.kind = "panic", !.reason = what])

CaseEntryUsage(st, d) ==
    LET matches == FindStringSubmatch(d)
        c0 == [st.current EXCEPT !.usage = d]
        c1 == IF matches # <<>> /\ Len(matches) >= 2
              THEN [c0 EXCEPT !.input = matches[2]]
              ELSE [c0 EXCEPT !.dirty = TRUE,
                              !.comments = Append(c0.comments,
                                                  Error("usage is missing cloze deletion.", <<>>))]
        h == IsValidHTML(d)
    IN  IF h.pc = "panic" THEN Panic(st, c1, h.err.msg)
        ELSE Continue(st, AfterValidHTML(c1, h))

CaseEntryTranslation_NoClozeCheck(st, d) ==
    LET c1 == [st.current EXCEPT !.translation = d]
        h == IsValidHTML(d)
    IN  IF h.pc = "panic" THEN Panic(st, c1, h.err.msg)
        ELSE Continue(st, AfterValidHTML(c1, h))

CaseEntryTranslation(st, d) ==
    LET c0 == [st.current EXCEPT !.translation = d]
        c1 == IF FindStringSubmatch(d) = <<>>
              THEN [c0 EXCEPT !.dirty = TRUE,
                              !.comments = Append(c0.comments,
                                                  Error("translation is missing cloze deletion.", <<>>))]
              ELSE c0
        h == IsValidHTML(d)
    IN  IF h.pc = "panic" THEN Panic(st, c1, h.err.msg)
        ELSE Continue(st, AfterValidHTML(c1, h))

CaseEntryWord(st, d) == Continue(st, [st.current EXCEPT !.word = d])
CaseEntryPronunciation(st, d) == Continue(st, [st.current EXCEPT !.pronunciation = d])
CaseEntryDefinition(st, d) == Continue(st, [st.current EXCEPT !.definition = d])
CaseEntryTags(st, d) == Continue(st, [st.current EXCEPT !.tags = Split(d)])

Commit_KeepFirst(st) ==
    LET i == st.current.id - 1
    IN  IF i \in 0..(Capacity - 1)
        THEN ScanState(st.line + 1, ZeroEntry,
                       [k \in DOMAIN st.entries \cup {i} |->
                           IF k \in DOMAIN st.entries THEN st.entries[k] ELSE st.current],
                       "scan", NoError)
        ELSE ScanState(st.line, st.current, st.entries, "panic",
                       [kind |-> "panic", line |-> 0, data |-> <<>>, reason |-> "index out of range"])

Commit_AtID(st) ==
    LET i == st.current.id
    IN  IF i \in 0..(Capacity - 1)
        THEN ScanState(st.line + 1, ZeroEntry,
                       [k \in DOMAIN st.entries \cup {i} |->
                           IF k = i THEN st.current ELSE st.entries[k]],
                       "scan", NoError)
        ELSE ScanState(st.line, st.current, st.entries, "panic",
                       [kind |-> "panic", line |-> 0, data |-> <<>>, reason |-> "index out of range"])

\* entries[current.id-1] = current: an index outside the array panics
Commit(st) ==
    LET i == st.current.id - 1
    IN  IF i \in 0..(Capacity - 1)
        THEN ScanState(st.line + 1, ZeroEntry,
                       [k \in DOMAIN st.entries \cup {i} |->
                           IF k = i THEN st.current ELSE st.entries[k]],
                       "scan", NoError)
        ELSE Panic(st, st.current, "index out of range")

CaseEntryEnd(st, d) ==
    IF d # EntryDelimiter
    THEN ParseError(st, d, "line %d: unexpected end of entry. found: %q, expected: %q")
    ELSE Commit(st)

\* `switch (line - 1) % (EntryEnd + 1)`
Role(l) == (l - 1) % (EntryEnd + 1)

\* the loop body on the line d
Body(st, d) ==
    CASE Role(st.line) = EntryID -> CaseEntryID(st, d)
      [] Role(st.line) = EntryUsage -> CaseEntryUsage(st, d)
      [] Role(st.line) = EntryTranslation -> CaseEntryTranslation(st, d)
      [] Role(st.line) = EntryWord -> CaseEntryWord(st, d)
      [] Role(st.line) = EntryPronunciation -> CaseEntryPronunciation(st, d)
      [] Role(st.line) = EntryDefinition -> CaseEntryDefinition(st, d)
      [] Role(st.line) = EntryTags -> CaseEntryTags(st, d)
      [] Role(st.line) = EntryEnd -> CaseEntryEnd(st, d)

\* the state before the first line
Start == ScanState(1, ZeroEntry, <<>>, "scan", NoError)

\* the loop over the lines ls, from the state st, up to the first return or panic
RECURSIVE Loop(_, _)
Loop(st, ls) ==
    IF ls = <<>> \/ st.pc # "scan" THEN st ELSE Loop(Body(st, Head(ls)), Tail(ls))

\* NewEntriesFromFile on a stream of the lines ls that ends without a read error
NewEntriesFromFile(ls) ==
    LET st == Loop(Start, ls)
    IN  IF st.pc = "scan" THEN [st EXCEPT !.pc = "done"] ELSE st

-----------------------------------------------------------------------------
(* The second NewEntriesFromFile of the source, which does not call IsValidHTML *)

CaseEntryUsageMin(st, d) ==
    LET matches == FindStringSubmatch(d)
        c0 == [st.current EXCEPT !.usage = d]
    IN  Continue(st, IF matches # <<>> /\ Len(matches) >= 2
                     THEN [c0 EXCEPT !.input = matches[2]]
                     ELSE [c0 EXCEPT !.dirty = TRUE,
                                     !.comments = Append(c0.comments,
                                                         Error("usage is missing cloze deletion.", <<>>))])

CaseEntryTranslationMin(st, d) ==
    LET c0 == [st.current EXCEPT !.translation = d]
    IN  Continue(st, IF FindStringSubmatch(d) = <<>>
                     THEN [c0 EXCEPT !.dirty = TRUE,
                                     !.comments = Append(c0.comments,
                                                         Error("translation is missing cloze deletion.", <<>>))]
                     ELSE c0)

\* its loop body: the other cases are the same code
BodyMin(st, d) ==
    CASE Role(st.line) = EntryID -> CaseEntryID(st, d)
      [] Role(st.line) = EntryUsage -> CaseEntryUsageMin(st, d)
      [] Role(st.line) = EntryTranslation -> CaseEntryTranslationMin(st, d)
      [] Role(st.line) = EntryWord -> CaseEntryWord(st, d)
      [] Role(st.line) = EntryPronunciation -> CaseEntryPronunciation(st, d)
      [] Role(st.line) = EntryDefinition -> CaseEntryDefinition(st, d)
      [] Role(st.line) = EntryTags -> CaseEntryTags(st, d)
      [] Role(st.line) = EntryEnd -> CaseEntryEnd(st, d)

RECURSIVE LoopMin(_, _)
LoopMin(st, ls) ==
    IF ls = <<>> \/ st.pc # "scan" THEN st ELSE LoopMin(BodyMin(st, Head(ls)), Tail(ls))

NewEntriesFromFileMin(ls) ==
    LET st == LoopMin(Start, ls)
    IN  IF st.pc = "scan" THEN [st EXCEPT !.pc = "done"] ELSE st

-----------------------------------------------------------------------------
(* Entries.Write *)

\* fmt's %04d for 0..9999
DigitChar(n) ==
    CASE n = 0 -> "0" [] n = 1 -> "1" [] n = 2 -> "2" [] n = 3 -> "3" [] n = 4 -> "4"
      [] n = 5 -> "5" [] n = 6 -> "6" [] n = 7 -> "7" [] n = 8 -> "8" [] n = 9 -> "9"

Pad4(n) ==
    <<DigitChar(n \div 1000), DigitChar((n \div 100) % 10), DigitChar((n \div 10) % 10),
      DigitChar(n % 10)>>

\* strings.Join(strs, ",")
RECURSIVE Join(_)
Join(strs) ==
    IF strs = <<>> THEN <<>>
    ELSE IF Len(strs) = 1 THEN strs[1]
    ELSE strs[1] \o <<",">> \o Join(Tail(strs))

\* Entry.Audio: "[sound:%s-%04d.mp3]"
Audio(e, prefix) ==
    <<"[", "s", "o", "u", "n", "d", ":">> \o prefix \o <<"-">> \o Pad4(e.id)
        \o <<".", "m", "p", "3", "]">>

\* Entry.CSV: the nine columns of a row
CSV(e, prefix) ==
    <<prefix \o <<"-">> \o Pad4(e.id), e.input, e.usage, e.translation, e.word,
      e.pronunciation, e.definition, Audio(e, prefix), Join(e.tags)>>

EntrySkipped_ZeroOnly(e) == e.id = 0

\* `if entry.ID() == 0 || entry.IsDirty() { continue }`
EntrySkipped(e) == e.id = 0 \/ e.dirty

\* the slots of the set S in ascending order
RECURSIVE Ascending(_)
Ascending(S) ==
    IF S = {} THEN <<>>
    ELSE LET m == CHOOSE a \in S : \A b \in S : a <= b
         IN  <<m>> \o Ascending(S \ {m})

WriteResult(rows, count, dirty, e) ==
    [written |-> TRUE, rows |-> rows, count |-> count, dirty |-> dirty, err |-> e]
NoOutput == [written |-> FALSE, rows |-> <<>>, count |-> 0, dirty |-> 0, err |-> Nil]

\* `for _, entry := range entries` from the k-th of the slots on; the failAt-th call
\* of w.Write fails (none when failAt is 0 or beyond the rows).  Only the slots
\* written so far are visited: every other slot holds the zero value, which is
\* neither counted nor written.
RECURSIVE WriteLoop(_, _, _, _, _, _, _)
WriteLoop(es, slots, k, prefix, failAt, rows, dirty) ==
    IF k > Len(slots) THEN WriteResult(rows, Len(rows), dirty, Nil)
    ELSE LET entry == es[slots[k]]
             dirty1 == IF entry.dirty THEN dirty + 1 ELSE dirty
         IN  IF EntrySkipped(entry)
             THEN WriteLoop(es, slots, k + 1, prefix, failAt, rows, dirty1)
             ELSE IF Len(rows) + 1 = failAt
             THEN WriteResult(rows, Len(rows), dirty1,
                              Error("failed to write csv data: %w", <<>>))
             ELSE WriteLoop(es, slots, k + 1, prefix, failAt,
                            Append(rows, CSV(entry, prefix)), dirty1)

\* Entries.Write: the rows written, count, dirty and the error; when every row was
\* written and failAt is one more than the rows, w.Flush() fails
EntriesWrite(es, prefix, failAt) ==
    LET r == WriteLoop(es, Ascending(DOMAIN es), 1, prefix, failAt, <<>>, 0)
    IN  IF r.err = Nil /\ failAt = Len(r.rows) + 1
        THEN [r EXCEPT !.err = Error("failed to flush data: %w", <<>>)]
        ELSE r

\* cli.prefix
Prefixes == {<<"N", "2">>, <<>>}

-----------------------------------------------------------------------------
(* The lines a stream may hold, by the role of the line *)

\* ID lines: 0001, 0002, 2200, 0000, 2201, -001, 001, 000*, 0001*, 0001*x, "0002* cm"
IDLines ==
    {<<"0", "0", "0", "1">>,
     <<"0", "0", "0", "2">>,
     <<"2", "2", "0", "0">>,
     <<"0", "0", "0", "0">>,
     <<"2", "2", "0", "1">>,
     <<"-", "0", "0", "1">>,
     <<"0", "0", "1">>,
     <<"0", "0", "0", "*">>,
     <<"0", "0", "0", "1", "*">>,
     <<"0", "0", "0", "1", "*", "x">>,
     <<"0", "0", "0", "2", "*", " ", "c", "m">>}

\* prompt lines with a cloze deletion and balanced tags: {{c1::a}}, <b>{{c1::a}} {{c2::e}}</b>
CleanUsageLines ==
    {<<"{", "{", "c", "1", ":", ":", "a", "}", "}">>,
     <<"<", "b", ">", "{", "{", "c", "1", ":", ":", "a", "}", "}", " ", "{", "{", "c", "2", ":", ":", "e", "}", "}", "<", "/", "b", ">">>}

\* prompt lines with a content failure: a, <b>{{c1::a}}, </b>{{c1::a}}
DirtyUsageLines ==
    {<<"a">>,
     <<"<", "b", ">", "{", "{", "c", "1", ":", ":", "a", "}", "}">>,
     <<"<", "/", "b", ">", "{", "{", "c", "1", ":", ":", "a", "}", "}">>}

UsageLines == CleanUsageLines \cup DirtyUsageLines

\* translation lines with a cloze deletion and balanced tags: <i>{{c2::x}}</i>
CleanTranslationLines ==
    {<<"<", "i", ">", "{", "{", "c", "2", ":", ":", "x", "}", "}", "<", "/", "i", ">">>}

\* translation lines with a content failure: x, {{c1::x}}</i>
DirtyTranslationLines ==
    {<<"x">>,
     <<"{", "{", "c", "1", ":", ":", "x", "}", "}", "<", "/", "i", ">">>}

TranslationLines == CleanTranslationLines \cup DirtyTranslationLines

\* headword lines: w
WordLines ==
    {<<"w">>}

\* pronunciation lines: p
PronunciationLines ==
    {<<"p">>}

\* definition lines: d
DefinitionLines ==
    {<<"d">>}

\* labels lines: "n,,v" and the empty line
TagsLines ==
    {<<"n", ",", ",", "v">>,
     <<>>}

\* terminator lines: --- and --
EndLines ==
    {<<"-", "-", "-">>,
     <<"-", "-">>}

-----------------------------------------------------------------------------
(* The run of NewEntriesFromFile, one scanner.Scan() per step *)

IdleHTML ==
    /\ s = <<>> /\ form = [kind |-> "none", t |-> <<>>, X |-> <<>>, Y |-> <<>>, toks |-> <<>>]
    /\ offset = 0 /\ tags = <<>> /\ hpc = "idle" /\ herr = Nil
    /\ returned = <<>>

Init ==
    /\ lines = <<>> /\ line = 1 /\ data = <<>>
    /\ current = ZeroEntry /\ entries = <<>>
    /\ pc = "scan" /\ err = NoError
    /\ output = NoOutput
    /\ IdleHTML

\* scanner.Scan() delivers the line d and the loop body runs on it
Deliver(d) ==
    LET st == Body(ScanState(line, current, entries, pc, err), d)
    IN  /\ lines' = Append(lines, d)
        /\ data' = d
        /\ line' = st.line
        /\ current' = st.current
        /\ entries' = st.entries
        /\ pc' = st.pc
        /\ err' = st.err
        /\ UNCHANGED <<htmlVars, output>>

Scanning(role) == pc = "scan" /\ Len(lines) < MaxLines /\ Role(line) = role

ScanEntryID == Scanning(EntryID) /\ \E d \in IDLines : Deliver(d)
ScanEntryUsage == Scanning(EntryUsage) /\ \E d \in UsageLines : Deliver(d)
ScanEntryTranslation == Scanning(EntryTranslation) /\ \E d \in TranslationLines : Deliver(d)
ScanEntryWord == Scanning(EntryWord) /\ \E d \in WordLines : Deliver(d)
ScanEntryPronunciation == Scanning(EntryPronunciation) /\ \E d \in PronunciationLines : Deliver(d)
ScanEntryDefinition == Scanning(EntryDefinition) /\ \E d \in DefinitionLines : Deliver(d)
ScanEntryTags == Scanning(EntryTags) /\ \E d \in TagsLines : Deliver(d)
ScanEntryEnd == Scanning(EntryEnd) /\ \E d \in EndLines : Deliver(d)

\* scanner.Scan() returns false and scanner.Err() is nil: return entries, nil
EndOfStream ==
    /\ pc = "scan"
    /\ pc' = "done"
    /\ err' = NoError
    /\ UNCHANGED <<lines, line, data, current, entries, htmlVars, output>>

\* scanner.Scan() returns false and scanner.Err() is not nil
ReadFailure ==
    /\ pc = "scan"
    /\ pc' = "done"
    /\ err' = ReadError
    /\ UNCHANGED <<lines, line, data, current, entries, htmlVars, output>>

\* main: entries.Write(w, cli.prefix), reached when NewEntriesFromFile returned no
\* error; the writer w may fail at any row or at the flush
Write ==
    /\ pc = "done" /\ err = NoError
    /\ ~output.written
    /\ \E prefix \in Prefixes, failAt \in 0..(Cardinality(DOMAIN entries) + 1) :
          output' = EntriesWrite(entries, prefix, failAt)
    /\ UNCHANGED <<scanVars, htmlVars>>

Next ==
    \/ ScanEntryID
    \/ ScanEntryUsage
    \/ ScanEntryTranslation
    \/ ScanEntryWord
    \/ ScanEntryPronunciation
    \/ ScanEntryDefinition
    \/ ScanEntryTags
    \/ ScanEntryEnd
    \/ EndOfStream
    \/ ReadFailure
    \/ Write

Spec == Init /\ [][Next]_vars

-----------------------------------------------------------------------------
(* The run of IsValidHTML, one evaluation of the loop per step, on texts     *)
(* drawn from four families                                                  *)

Strings(A, n) == UNION {[1..k -> A] : k \in 0..n}

Alphabet == {"<", ">", "/", " ", "\t", "b", "i"}
TextAlphabet == {"/", " ", "b", "i"}
Names == {<<"b">>, <<"i">>}

\* the tokens of a marked-up text: an opening tag, a closing tag, a text segment
Open(name, attr) == [kind |-> "open", name |-> name, attr |-> attr, text |-> <<>>]
Close(name, attr) == [kind |-> "close", name |-> name, attr |-> attr, text |-> <<>>]
Text(text) == [kind |-> "text", name |-> <<>>, attr |-> <<>>, text |-> text]

Tokens ==
    {Open(<<"b">>, <<>>), Open(<<"i">>, <<>>), Open(<<"b">>, <<"h", "=", "/", " ", "1">>),
     Close(<<"b">>, <<>>), Close(<<"i">>, <<>>), Close(<<"b">>, <<"x">>),
     Text(<<"x">>), Text(<<" ", "/", " ">>)}

\* the text of one token: <name>, <name attr>, </name>, </name attr>, or the segment
RenderToken(k) ==
    LET inside == k.name \o (IF k.attr = <<>> THEN <<>> ELSE <<" ">> \o k.attr)
    IN  CASE k.kind = "open" -> <<"<">> \o inside \o <<">">>
          [] k.kind = "close" -> <<"<", "/">> \o inside \o <<">">>
          [] k.kind = "text" -> k.text

RECURSIVE Render(_)
Render(toks) == IF toks = <<>> THEN <<>> ELSE RenderToken(Head(toks)) \o Render(Tail(toks))

\* <t> X < Y </t>, or <t> X <> Y </t> when empty
Stray(t, X, Y, empty) ==
    <<"<">> \o t \o <<">">> \o X \o <<"<">> \o (IF empty THEN <<">">> ELSE <<>>) \o Y
        \o <<"<", "/">> \o t \o <<">">>

\* the line-break tag as it may be written
Voids == {<<"<", "b", "r", ">">>, <<"<", "b", "r", "/", ">">>, <<"<", "b", "r", " ", "/", ">">>}

Form(kind, t, X, Y, toks) == [kind |-> kind, t |-> t, X |-> X, Y |-> Y, toks |-> toks]

InitHTML ==
    /\ lines = <<>> /\ line = 1 /\ data = <<>>
    /\ current = ZeroEntry /\ entries = <<>>
    /\ pc = "scan" /\ err = NoError
    /\ output = NoOutput
    /\ returned = <<>>
    /\ \/ /\ s \in Strings(Alphabet, MaxLen)
          /\ form = Form("any", <<>>, <<>>, <<>>, <<>>)
       \/ \E t \in Names, X \in Strings(TextAlphabet, MaxX), Y \in Strings(TextAlphabet, MaxY) :
              /\ form = Form("stray", t, X, Y, <<>>)
              /\ s = Stray(t, X, Y, FALSE)
       \/ \E t \in Names, X \in Strings(TextAlphabet, MaxX), Y \in Strings(TextAlphabet, MaxY) :
              /\ form = Form("strayEmpty", t, X, Y, <<>>)
              /\ s = Stray(t, X, Y, TRUE)
       \/ \E toks \in Strings(Tokens, MaxToks) :
              /\ form = Form("tokens", <<>>, <<>>, <<>>, toks)
              /\ s = Render(toks)
       \/ \E v \in Voids, X \in Strings(TextAlphabet, MaxX), Y \in Strings(TextAlphabet, MaxY) :
              /\ form = Form("void", v, X, Y, <<>>)
              /\ s = X \o v \o Y
    /\ offset = 0 /\ tags = <<>> /\ hpc = "loop" /\ herr = Nil

\* the loop condition and body once
Iterate ==
    /\ hpc = "loop"
    /\ LET st == HTMLStep(s, offset, tags)
       IN  /\ offset' = st.offset
           /\ tags' = st.tags
           /\ hpc' = st.pc
           /\ herr' = st.err
           /\ returned' = IF st.pc = "loop" THEN returned
                           ELSE Append(returned, [s |-> s, pc |-> st.pc, err |-> st.err])
    /\ UNCHANGED <<s, form, scanVars, output>>

NextHTML == Iterate

SpecHTML == InitHTML /\ [][NextHTML]_vars

-----------------------------------------------------------------------------
(* Calls of IsValidHTML one after another in one process *)

CallStrings ==
    {<<>>, <<"b">>, <<"<", "b", ">">>, <<"<", "i", ">">>, <<"<", "/", "b", ">">>,
     <<"<", "b", ">", "<", "/", "b", ">">>, <<"<", "b", ">", "<", "/", "i", ">">>,
     <<"b", ">", "<">>, <<"<", ">">>}

CallState_Stale(t) == HTMLState("loop", 0, t, Nil)

\* `tags := []string{}` and `offset := 0` at entry, t being the stack the call
\* before left behind
CallState(t) == HTMLState("loop", 0, <<>>, Nil)

InitCalls ==
    /\ lines = <<>> /\ line = 1 /\ data = <<>>
    /\ current = ZeroEntry /\ entries = <<>>
    /\ pc = "scan" /\ err = NoError
    /\ output = NoOutput
    /\ IdleHTML

\* IsValidHTML(str) is entered; a panic of an earlier call has ended the process
Call(str) ==
    /\ hpc \in {"idle", "return"}
    /\ Len(returned) < MaxCalls
    /\ LET st == CallState(tags)
       IN  /\ s' = str
           /\ offset' = st.offset
           /\ tags' = st.tags
           /\ hpc' = st.pc
           /\ herr' = st.err
    /\ UNCHANGED <<form, returned, scanVars, output>>

NextCalls ==
    \/ \E str \in CallStrings : Call(str)
    \/ Iterate

SpecCalls == InitCalls /\ [][NextCalls]_vars

-----------------------------------------------------------------------------
(* What the claims speak of: the groups of the stream delivered so far *)

GroupSize == EntryEnd + 1
NGroups == Len(lines) \div GroupSize
GroupLine(g, role) == lines[GroupSize * (g - 1) + role + 1]
Returned == pc # "scan" /\ err.kind # "io"

\* the stream of the complete groups that ended before line n, and its storage
GroupsBefore(n) == SubSeq(lines, 1, GroupSize * ((n - 1) \div GroupSize))
StorageOf(ls) == NewEntriesFromFile(ls).entries

\* a line of exactly four digits, and the number it denotes
FourDigits(d) == Len(d) = 4 /\ \A i \in 1..4 : d[i] \in Digit
Number(d) == 1000 * DigitVal(d[1]) + 100 * DigitVal(d[2]) + 10 * DigitVal(d[3]) + DigitVal(d[4])

\* the text inside the cloze deletion of the clean prompt lines
ClozeText(u) ==
    CASE u = <<"{", "{", "c", "1", ":", ":", "a", "}", "}">> -> <<"a">>
      [] u = <<"<", "b", ">", "{", "{", "c", "1", ":", ":", "a", "}", "}", " ",
               "{", "{", "c", "2", ":", ":", "e", "}", "}", "<", "/", "b", ">">>
            -> <<"a", "}", "}", " ", "{", "{", "c", "2", ":", ":", "e">>

\* the labels of the labels lines
Labels(d) == IF d = <<>> THEN <<<<>>>> ELSE <<<<"n">>, <<>>, <<"v">>>>

WellFormedGroup(g) ==
    /\ FourDigits(GroupLine(g, EntryID))
    /\ Number(GroupLine(g, EntryID)) \in 1..Capacity
    /\ GroupLine(g, EntryUsage) \in CleanUsageLines
    /\ GroupLine(g, EntryTranslation) \in CleanTranslationLines
    /\ GroupLine(g, EntryEnd) = <<"-", "-", "-">>

WellFormedStream ==
    /\ Len(lines) % GroupSize = 0
    /\ \A g \in 1..NGroups : WellFormedGroup(g)
    /\ \A g, h \in 1..NGroups :
          g # h => Number(GroupLine(g, EntryID)) # Number(GroupLine(h, EntryID))

RecordOf(g) ==
    [id |-> Number(GroupLine(g, EntryID)), dirty |-> FALSE, comments |-> <<>>,
     input |-> ClozeText(GroupLine(g, EntryUsage)),
     usage |-> GroupLine(g, EntryUsage),
     translation |-> GroupLine(g, EntryTranslation),
     word |-> GroupLine(g, EntryWord),
     pronunciation |-> GroupLine(g, EntryPronunciation),
     definition |-> GroupLine(g, EntryDefinition),
     tags |-> Labels(GroupLine(g, EntryTags))]

\* C1: a stream of complete, well-formed groups with distinct ids in 1..2200 parses
\* without error, and the storage holds exactly one clean record per group, at id-1.
C1_WellFormedParsed ==
    (Returned /\ WellFormedStream) =>
        /\ pc = "done" /\ err = NoError
        /\ DOMAIN entries = {Number(GroupLine(g, EntryID)) - 1 : g \in 1..NGroups}
        /\ \A g \in 1..NGroups : entries[Number(GroupLine(g, EntryID)) - 1] = RecordOf(g)

C1_Witness ==
    /\ pc = "done" /\ WellFormedStream /\ NGroups = 2
    /\ (Capacity - 1) \in DOMAIN entries
    /\ GroupLine(1, EntryUsage) # GroupLine(2, EntryUsage)

\* the stream has no structural failure: every ID line delivered has four characters
\* that parse, every terminator line delivered is ---
Integer4(d) ==
    /\ Len(d) >= 4
    /\ d[1] \in Digit \cup {"+", "-"}
    /\ \A i \in 2..4 : d[i] \in Digit

StructurallyBad(k) ==
    \/ Role(k) = EntryID /\ ~Integer4(lines[k])
    \/ Role(k) = EntryEnd /\ lines[k] # <<"-", "-", "-">>

\* C2: on a stream without structural failure the parser runs to the end of the
\* stream, returns no error and commits every complete group, whatever the
\* prompt and translation lines hold.
C2_ContentNeverAborts ==
    (Returned /\ \A k \in 1..Len(lines) : ~StructurallyBad(k)) =>
        /\ pc = "done" /\ err = NoError
        /\ \A g \in 1..NGroups :
              (ParseInt(SubSeq(GroupLine(g, EntryID), 1, 4)).val - 1) \in DOMAIN entries

\* C3: a structural failure at line n returns an EntriesParseError with Line() = n
\* and Data() = that line, and the storage of the complete groups before line n.
C3_StructuralFailure ==
    (Len(lines) > 0 /\ StructurallyBad(Len(lines))) =>
        /\ pc = "done"
        /\ err.kind = "parse"
        /\ err.line = Len(lines)
        /\ err.data = lines[Len(lines)]
        /\ entries = StorageOf(GroupsBefore(Len(lines)))

C3_Witness ==
    /\ err.kind = "parse" /\ Len(lines) = 2 * GroupSize
    /\ StructurallyBad(Len(lines))
    /\ DOMAIN entries # {}

\* C4: a trailing incomplete group is dropped: after 1 to 7 lines beyond the last
\* complete group the parser returns no error and the storage of the complete groups.
C4_TrailingDropped ==
    (Returned /\ Len(lines) % GroupSize # 0) =>
        /\ pc = "done" /\ err = NoError
        /\ entries = StorageOf(GroupsBefore(Len(lines)))

\* C5: every id the ID-line check accepts has its index id-1 inside the storage, and
\* the commit never indexes outside it.
C5_CommitInRange ==
    /\ (pc = "scan" /\ Len(lines) > 0 /\ Role(Len(lines)) = EntryID) =>
          (current.id - 1) \in 0..(Capacity - 1)
    /\ ~(pc = "panic" /\ err.reason = "index out of range")

-----------------------------------------------------------------------------
(* The tag structure of a token sequence, read token by token: where the first  *)
(* closing tag without its opening tag stands, and the open names at that point *)

Verdict(what, at, stack) == [what |-> what, at |-> at, stack |-> stack]

RECURSIVE Nesting(_, _, _)
Nesting(toks, k, stack) ==
    IF k > Len(toks)
    THEN Verdict(IF stack = <<>> THEN "balanced" ELSE "unclosed", 0, stack)
    ELSE CASE toks[k].kind = "text" -> Nesting(toks, k + 1, stack)
           [] toks[k].kind = "open" -> Nesting(toks, k + 1, Append(stack, toks[k].name))
           [] toks[k].kind = "close" ->
                 IF stack = <<>> THEN Verdict("closeOnEmpty", k, stack)
                 ELSE IF stack[Len(stack)] # toks[k].name THEN Verdict("mismatch", k, stack)
                 ELSE Nesting(toks, k + 1, SubSeq(stack, 1, Len(stack) - 1))

NestingOf(toks) == Nesting(toks, 1, <<>>)
Finished == hpc # "loop"

\* C6: a closing tag met on an empty stack makes the validator return an error.
C6_CloseOnEmptyIsError ==
    (form.kind = "tokens" /\ Finished /\ NestingOf(form.toks).what = "closeOnEmpty") =>
        (hpc = "return" /\ herr # Nil)

\* C7 as claimed: every text <t> X < Y </t> or <t> X <> Y </t> is rejected.
C7_StrayOpenRejected ==
    (form.kind \in {"stray", "strayEmpty"} /\ Finished) => (hpc = "return" /\ herr # Nil)

BeginsWith(str, p) == Len(str) >= Len(p) /\ SubSeq(str, 1, Len(p)) = p

\* Y, with its leading white space removed, begins with "/", the name t and a space
ReadsAsClose(t, Y) == BeginsWith(TrimLeft(Y), <<"/">> \o t \o <<" ">>)

\* C7: every text <t> X <> Y </t> is rejected, and every text <t> X < Y </t> in which
\* Y, after its leading white space, does not begin with /t and a space is rejected.
C7_StrayOpenRejectedUnlessClose ==
    (/\ form.kind \in {"stray", "strayEmpty"}
     /\ Finished
     /\ ~(form.kind = "stray" /\ ReadsAsClose(form.t, form.Y))) =>
        (hpc = "return" /\ herr # Nil)

C7_Witness ==
    /\ form.kind = "stray" /\ hpc = "return"
    /\ form.X # <<>> /\ form.Y # <<>>
    /\ herr.msg = "not all tags closed: %+v" /\ Len(tags) = 2

\* a > stands in the text from offset on, before any <
StrayClose ==
    \E i \in (offset + 1)..Len(s) :
        s[i] = ">" /\ \A j \in (offset + 1)..(i - 1) : s[j] # "<"

\* C8: at every scan position, a > before any < in the remaining text makes the
\* validator return the closing-bracket error, whether or not a < follows.
C8_StrayCloseFails ==
    [][(hpc = "loop" /\ StrayClose) =>
          (hpc' = "return"
           /\ herr'.msg = "found closing bracket before an opening bracket")]_vars

\* C9: a closing tag that differs from the top of a non-empty stack returns at once
\* the mismatch error naming the top and the closing name, without a pop.
C9_MismatchReturned ==
    LET v == NestingOf(form.toks)
    IN  (form.kind = "tokens" /\ Finished /\ v.what = "mismatch") =>
            /\ hpc = "return"
            /\ herr = Error("mismatched close tag found: %s != %s",
                            <<v.stack[Len(v.stack)], form.toks[v.at].name>>)
            /\ tags = v.stack
            /\ offset = Len(Render(SubSeq(form.toks, 1, v.at - 1)))

C9_Witness ==
    /\ form.kind = "tokens" /\ hpc = "return"
    /\ NestingOf(form.toks).what = "mismatch"
    /\ Len(tags) = 2
    /\ herr.args = <<<<"i">>, <<"b">>>>

\* C10: every properly nested text is accepted.
C10_NestedAccepted ==
    (form.kind = "tokens" /\ Finished /\ NestingOf(form.toks).what = "balanced") =>
        (hpc = "return" /\ herr = Nil)

C10_Witness ==
    /\ form.kind = "tokens" /\ hpc = "return" /\ herr = Nil
    /\ Len(form.toks) = 4
    /\ form.toks[1].kind = "open" /\ form.toks[1].attr # <<>>
    /\ form.toks[2].kind = "open"

-----------------------------------------------------------------------------
(* The group in flight and the group just committed *)

\* the ID line has just been accepted
AfterIDLine == pc = "scan" /\ Len(lines) > 0 /\ Role(Len(lines)) = EntryID
LastLine == lines[Len(lines)]

\* C11 as claimed: the ID-line step sets dirty exactly when the character at index 3
\* of the ID line is the marker.
C11_DirtyAtIndex3 ==
    AfterIDLine => (current.dirty <=> LastLine[3 + 1] = "*")

\* C11: the ID-line step sets dirty exactly when the ID line has a character at
\* index 4 (its 5th character) and that character is the marker.
C11_DirtyAtIndex4 ==
    AfterIDLine => (current.dirty <=> (Len(LastLine) >= 5 /\ LastLine[4 + 1] = "*"))

C11_Witness ==
    /\ AfterIDLine /\ current.dirty
    /\ LastLine = <<"0", "0", "0", "1", "*">>

\* the text of a note, and the two cloze notes
NoteOfText(text) == [msg |-> "%s", args |-> <<text>>]
UsageNote == [msg |-> "usage is missing cloze deletion.", args |-> <<>>]
TranslationNote == [msg |-> "translation is missing cloze deletion.", args |-> <<>>]

\* a line without a brace holds no cloze deletion; the lines of the streams that hold
\* a brace hold a whole {{c<digit>::<content>}}
NoCloze(d) == \A i \in 1..Len(d) : d[i] # "{"
Has(notes, n) == \E i \in 1..Len(notes) : notes[i] = n
Before(notes, n, m) ==
    \E i, j \in 1..Len(notes) : i < j /\ notes[i] = n /\ notes[j] = m

\* the last complete group has just been committed, and the record it left
JustCommitted == pc = "scan" /\ Len(lines) > 0 /\ Len(lines) % GroupSize = 0
CommittedID == ParseInt(SubSeq(GroupLine(NGroups, EntryID), 1, 4)).val
CommittedRecord == entries[CommittedID - 1]

\* C12: a prompt line without cloze deletion makes the committed record dirty with
\* the usage note, a translation line without one makes it dirty with the translation
\* note, each whatever the other line holds, and the usage note comes first.
C12_MissingClozeNotes ==
    JustCommitted =>
        LET r == CommittedRecord
            u == GroupLine(NGroups, EntryUsage)
            tr == GroupLine(NGroups, EntryTranslation)
        IN  /\ NoCloze(u) => (r.dirty /\ Has(r.comments, UsageNote))
            /\ ~NoCloze(u) => ~Has(r.comments, UsageNote)
            /\ NoCloze(tr) => (r.dirty /\ Has(r.comments, TranslationNote))
            /\ ~NoCloze(tr) => ~Has(r.comments, TranslationNote)
            /\ (NoCloze(u) /\ NoCloze(tr)) =>
                  (/\ Before(r.comments, UsageNote, TranslationNote)
                   /\ ~Before(r.comments, TranslationNote, UsageNote))

C12_Witness ==
    /\ JustCommitted
    /\ NoCloze(GroupLine(NGroups, EntryUsage))
    /\ NoCloze(GroupLine(NGroups, EntryTranslation))
    /\ Len(CommittedRecord.comments) = 3

\* the storage es with the record r written into slot i, and nothing else changed
Written(es, i, r) == [k \in DOMAIN es \cup {i} |-> IF k = i THEN r ELSE es[k]]

\* this step consumes a line in the Terminator role that equals the delimiter
TerminatorStep == lines' # lines /\ Role(line) = EntryEnd /\ data' = <<"-", "-", "-">>

\* C13: the storage changes only in the step that consumes a Terminator line equal
\* to ---, that step writes exactly one slot, every other step leaves the storage as
\* it is, and the loop counter is one more than the number of lines consumed.
C13_StorageFrame ==
    [][/\ TerminatorStep =>
            \E i \in 0..(Capacity - 1) : entries' = Written(entries, i, current)
       /\ ~TerminatorStep => entries' = entries
       /\ pc' = "scan" => line' = Len(lines') + 1]_vars

\* the same, for the steps that do not end in a run-time panic
C13_StorageFrameUnlessPanic ==
    [][pc' # "panic" =>
          /\ TerminatorStep =>
                \E i \in 0..(Capacity - 1) : entries' = Written(entries, i, current)
          /\ ~TerminatorStep => entries' = entries
          /\ pc' = "scan" => line' = Len(lines') + 1]_vars

\* the validator returns an error on the line d
Rejected(d) == IsValidHTML(d).pc = "return" /\ IsValidHTML(d).err # Nil
Marked(d) == Len(d) >= 5 /\ d[5] = "*"

\* the reasons for the group g to be dirty among its first k lines
DirtyCause(g, k) ==
    \/ Marked(GroupLine(g, EntryID))
    \/ k > EntryUsage /\ NoCloze(GroupLine(g, EntryUsage))
    \/ k > EntryUsage /\ Rejected(GroupLine(g, EntryUsage))
    \/ k > EntryTranslation /\ NoCloze(GroupLine(g, EntryTranslation))
    \/ k > EntryTranslation /\ Rejected(GroupLine(g, EntryTranslation))

\* C15: a committed record is dirty exactly when its own ID line carries the marker,
\* or its prompt or translation line has no cloze deletion or is rejected by the
\* validator; while the group is in flight the flag is exactly the reasons met so far
\* in this group, whatever the earlier groups held.
C15_DirtyIffCause ==
    /\ JustCommitted => (CommittedRecord.dirty <=> DirtyCause(NGroups, GroupSize))
    /\ (pc = "scan" /\ Len(lines) % GroupSize # 0) =>
          (current.dirty <=> DirtyCause(NGroups + 1, Len(lines) % GroupSize))

\* a clean record committed after a dirty one, and a record dirty by the validator alone
C15_Witness ==
    /\ JustCommitted /\ NGroups = 2
    /\ DirtyCause(1, GroupSize) /\ ~CommittedRecord.dirty
    /\ Rejected(GroupLine(1, EntryUsage)) /\ ~NoCloze(GroupLine(1, EntryUsage))
    /\ ~Marked(GroupLine(1, EntryID))

\* C17 as claimed: the notes start with the text of the ID line from offset 5 on when
\* the line is longer than 5 characters, and empty otherwise.
C17_CommentFromOffset5 ==
    AfterIDLine =>
        current.comments = IF Len(LastLine) > 5
                           THEN <<NoteOfText(SubSeq(LastLine, 5 + 1, Len(LastLine)))>>
                           ELSE <<>>

\* C17: the notes start with the text of the ID line from offset 6 on when the line
\* is longer than 6 characters, and empty when it has 6 characters or fewer.
C17_CommentFromOffset6 ==
    AfterIDLine =>
        current.comments = IF Len(LastLine) > 6
                           THEN <<NoteOfText(SubSeq(LastLine, 6 + 1, Len(LastLine)))>>
                           ELSE <<>>

C17_Witness ==
    /\ AfterIDLine
    /\ LastLine = <<"0", "0", "0", "2", "*", " ", "c", "m">>
    /\ current.comments = <<NoteOfText(<<"c", "m">>)>>

\* the groups that carry the id of the group g, and the record the group g leaves
\* when it is parsed alone
IDOf(g) == ParseInt(SubSeq(GroupLine(g, EntryID), 1, 4)).val
Alone(g) == SubSeq(lines, GroupSize * (g - 1) + 1, GroupSize * g)
RecordAlone(g) == StorageOf(Alone(g))[IDOf(g) - 1]
LastWithID(g) == \A h \in 1..NGroups : IDOf(h) = IDOf(g) => h <= g

\* C19: groups that carry the same id raise no error and no note; each slot holds the
\* record of the last group with its id, as that group alone would leave it, and the
\* populated slots are as many as the distinct ids.
C19_LastCommitWins ==
    JustCommitted =>
        /\ err = NoError
        /\ DOMAIN entries = {IDOf(g) - 1 : g \in 1..NGroups}
        /\ \A g \in 1..NGroups : LastWithID(g) => entries[IDOf(g) - 1] = RecordAlone(g)
        /\ Cardinality(DOMAIN entries) = Cardinality({IDOf(g) : g \in 1..NGroups})

C19_Witness ==
    /\ JustCommitted /\ NGroups = 2
    /\ IDOf(1) = IDOf(2)
    /\ Alone(1) # Alone(2)
    /\ GroupLine(1, EntryUsage) # GroupLine(2, EntryUsage)
    /\ Cardinality(DOMAIN entries) = 1

\* the slots that hold a record that is not dirty, and the k-th of them in
\* ascending order
CleanSlots == {i \in DOMAIN entries : entries[i].id # 0 /\ ~entries[i].dirty}
DirtySlots == {i \in 0..(Capacity - 1) : EntryAt(entries, i).dirty}
KthClean(k) ==
    CHOOSE i \in CleanSlots : Cardinality({j \in CleanSlots : j < i}) = k - 1
WrittenOut == output.written /\ output.err = Nil
PrefixOf(row) == SubSeq(row[1], 1, Len(row[1]) - 5)

\* C20: Entries.Write writes one row per populated slot that is not dirty, in
\* ascending slot order, and no other row; count is the number of rows, dirty the
\* number of dirty slots, and count + dirty the number of populated slots.
C20_WriteCleanOnly ==
    WrittenOut =>
        /\ Len(output.rows) = Cardinality(CleanSlots)
        /\ \A k \in 1..Len(output.rows) :
              output.rows[k] = CSV(entries[KthClean(k)], PrefixOf(output.rows[k]))
        /\ output.count = Len(output.rows)
        /\ output.dirty = Cardinality(DirtySlots)
        /\ output.count + output.dirty = Cardinality(DOMAIN entries)

\* a dirty record in a lower slot than a clean one, committed after it
C20_Witness ==
    /\ WrittenOut /\ NGroups = 2
    /\ output.count = 1 /\ output.dirty = 1
    /\ IDOf(2) < IDOf(1)
    /\ entries[IDOf(2) - 1].dirty

\* the notes of a record that the parser itself wrote: the text of the ID line and
\* the two notes about a missing cloze deletion
RECURSIVE OwnNotes(_)
OwnNotes(notes) ==
    IF notes = <<>> THEN <<>>
    ELSE IF Head(notes).msg = "%s" \/ Head(notes) \in {UsageNote, TranslationNote}
         THEN <<Head(notes)>> \o OwnNotes(Tail(notes))
         ELSE OwnNotes(Tail(notes))

\* the record f of the full variant against the record m of the minimal one
SameButValidation(f, m) ==
    /\ [f EXCEPT !.dirty = FALSE, !.comments = <<>>] = [m EXCEPT !.dirty = FALSE, !.comments = <<>>]
    /\ m.dirty => f.dirty
    /\ OwnNotes(f.comments) = m.comments
    /\ (f.dirty /\ ~m.dirty) => f.comments # m.comments

\* C18: on every stream the two variants return the same error outcome and the same
\* storage, except that a record of the full variant may also be dirty and carry
\* the validator's messages as further notes.
C18_VariantsRefine ==
    Returned =>
        LET m == NewEntriesFromFileMin(lines)
        IN  /\ pc = m.pc /\ err = m.err
            /\ DOMAIN entries = DOMAIN m.entries
            /\ \A i \in DOMAIN entries : SameButValidation(entries[i], m.entries[i])

\* the same, for the streams on which the validator returns
C18_VariantsRefineUnlessPanic ==
    (Returned /\ ~(pc = "panic" /\ Role(line) \in {EntryUsage, EntryTranslation})) =>
        LET m == NewEntriesFromFileMin(lines)
        IN  /\ pc = m.pc /\ err = m.err
            /\ DOMAIN entries = DOMAIN m.entries
            /\ \A i \in DOMAIN entries : SameButValidation(entries[i], m.entries[i])

\* C16: at the end of the text with open tags left, the validator returns the
\* error that lists the unclosed names from the outermost to the innermost; a text
\* whose only tag is <br>, <br/> or <br /> is rejected in this way.
C16_UnclosedListed ==
    /\ (form.kind = "tokens" /\ Finished /\ NestingOf(form.toks).what = "unclosed") =>
          /\ hpc = "return"
          /\ herr = Error("not all tags closed: %+v", NestingOf(form.toks).stack)
          /\ tags = NestingOf(form.toks).stack
    /\ (form.kind = "void" /\ Finished) =>
          /\ hpc = "return"
          /\ herr.msg = "not all tags closed: %+v"
          /\ Len(herr.args) = 1 /\ BeginsWith(herr.args[1], <<"b", "r">>)

\* <b ...> and <i> are left open, b outside i
C16_Witness ==
    /\ form.kind = "tokens" /\ hpc = "return"
    /\ NestingOf(form.toks).what = "unclosed"
    /\ herr.args = <<<<"b">>, <<"i">>>>
    /\ Len(form.toks) = MaxToks

\* a rejected line-break tag between two texts
C16_VoidReached ==
    /\ form.kind = "void" /\ hpc = "return"
    /\ form.X # <<>> /\ form.Y # <<>>
    /\ herr.args \in {<<<<"b", "r">>>>, <<<<"b", "r", "/">>>>}

\* C14: two calls of IsValidHTML on the same string give the same outcome, whatever
\* calls were made before or between them: every call ends as a first call on its
\* string ends.
C14_CallsIndependent ==
    /\ \A i, j \in 1..Len(returned) :
          returned[i].s = returned[j].s => returned[i] = returned[j]
    /\ \A i \in 1..Len(returned) :
          LET h == IsValidHTML(returned[i].s)
          IN  returned[i].pc = h.pc /\ returned[i].err = h.err

\* the same string rejected twice alike, with a call that leaves another stack
\* behind in between
C14_Witness ==
    /\ Len(returned) = MaxCalls
    /\ returned[1].s = returned[3].s /\ returned[1].s # returned[2].s
    /\ returned[1].err.msg = "not all tags closed: %+v"
    /\ returned[2].err.msg = "not all tags closed: %+v"
    /\ returned[3].pc = "return"

====
